---- MODULE Spec2Model ----
(***************************************************************************)
(* Model of the sparse symmetric matrix pipeline of pcgs:                  *)
(*   entries --SparseSymmetricMatrix::new--> matrix                        *)
(*           --SparseRowMatrix::new-->       compressed row view           *)
(*           --SparseRowMatrix::apply-->     matrix-vector product         *)
(* Rust vectors are 0-based; a Rust vector v is the sequence whose element *)
(* v[i] sits at position i+1.                                              *)
(***************************************************************************)
EXTENDS Integers, Sequences, FiniteSets

\* Largest row/column index a caller puts into an Entry.
MaxIdx == 2
\* Longest entry list a caller passes to SparseSymmetricMatrix::new.
MaxLen == 2

(***************************************************************************)
(* f64 values.  A finite value is [fin |-> TRUE, n |-> its integer value]; *)
(* NaN is [FALSE, 0]; +infinity and -infinity are [FALSE, 1], [FALSE, -1]. *)
(***************************************************************************)
F(n) == [fin |-> TRUE, n |-> n]
NaN == [fin |-> FALSE, n |-> 0]
Inf(s) == [fin |-> FALSE, n |-> s]

is_finite(v) == v.fin

Sign(n) == IF n > 0 THEN 1 ELSE IF n < 0 THEN 0 - 1 ELSE 0

\* f64 multiplication (IEEE 754 special cases kept).
FMul(a, b) ==
  IF a.fin /\ b.fin THEN F(a.n * b.n)
  ELSE IF a = NaN \/ b = NaN THEN NaN
  ELSE IF a.n = 0 \/ b.n = 0 THEN NaN
  ELSE Inf(Sign(a.n) * Sign(b.n))

\* f64 addition (IEEE 754 special cases kept).
FAdd(a, b) ==
  IF a.fin /\ b.fin THEN F(a.n + b.n)
  ELSE IF a = NaN \/ b = NaN THEN NaN
  ELSE IF a.fin THEN b
  ELSE IF b.fin THEN a
  ELSE IF a.n = b.n THEN a ELSE NaN

\* The coefficient values a caller supplies, and the components of a rhs vector.
EntryVals == {F(1), F(2), NaN}
VectorVals == {F(1), F(3)}

min(a, b) == IF a <= b THEN a ELSE b
max(a, b) == IF a >= b THEN a ELSE b

Entry == [x : 0..MaxIdx, y : 0..MaxIdx, v : EntryVals]

(***************************************************************************)
(* Entry::lower_triangle and Entry::symmetric                              *)
(***************************************************************************)
lower_triangle_identity(e) == e

lower_triangle(e) == [x |-> min(e.x, e.y), y |-> max(e.x, e.y), v |-> e.v]

symmetric(e) == [x |-> e.y, y |-> e.x, v |-> e.v]

(***************************************************************************)
(* SparseSymmetricMatrix::new                                              *)
(***************************************************************************)
\* entries.iter().cloned().map(|e| e.lower_triangle()).collect()
canonical_entries(entries) ==
  [k \in 1..Len(entries) |-> lower_triangle(entries[k])]

off_diagonal(e) == e.x # e.y

\* sorted_entries.iter().filter(|e| e.x != e.y).map(|e| e.symmetric()).collect()
symmetric_entries(s) ==
  LET kept == SelectSeq(s, off_diagonal)
  IN  [k \in 1..Len(kept) |-> symmetric(kept[k])]

\* The comparator of sort_by answers Less.
sort_less_row_only(a, b) == a.x < b.x

sort_less(a, b) == IF a.x = b.x THEN a.y < b.y ELSE a.x < b.x

\* One step of a stable sort: e, the latest element, goes before the first
\* element the comparator puts strictly after it, behind all its equals.
RECURSIVE insert_stable(_, _)
insert_stable(s, e) ==
  IF s = <<>> THEN <<e>>
  ELSE IF sort_less(e, Head(s)) THEN <<e>> \o s
  ELSE <<Head(s)>> \o insert_stable(Tail(s), e)

sort_by_skipped(s) == s

\* slice::sort_by is a stable sort; its result is the one a stable insertion
\* sort produces.
RECURSIVE sort_by(_)
sort_by(s) ==
  IF s = <<>> THEN <<>>
  ELSE insert_stable(sort_by(SubSeq(s, 1, Len(s) - 1)), s[Len(s)])

\* The closure of dedup_by: a is the later element, b the one retained before it.
same_bucket(a, b) == a.x = b.x /\ a.y = b.y

RECURSIVE dedup_by_keep_last(_)
dedup_by_keep_last(s) ==
  IF Len(s) <= 1 THEN s
  ELSE LET d == dedup_by_keep_last(SubSeq(s, 1, Len(s) - 1))
           e == s[Len(s)]
       IN  IF same_bucket(e, d[Len(d)])
             THEN Append(SubSeq(d, 1, Len(d) - 1), e)
             ELSE Append(d, e)

\* Vec::dedup_by removes every element the closure equates with the element
\* retained just before it: the first of a run stays.
RECURSIVE dedup_by(_)
dedup_by(s) ==
  IF Len(s) <= 1 THEN s
  ELSE LET d == dedup_by(SubSeq(s, 1, Len(s) - 1))
           e == s[Len(s)]
       IN  IF same_bucket(e, d[Len(d)]) THEN d ELSE Append(d, e)

RECURSIVE fold_length_as_dimension(_)
fold_length_as_dimension(s) ==
  IF s = <<>> THEN 0
  ELSE max(fold_length_as_dimension(SubSeq(s, 1, Len(s) - 1)),
           max(s[Len(s)].x, s[Len(s)].y) + 1)

\* sorted_entries.iter().fold(0, |acc, e| max(acc, max(e.x, e.y)))
RECURSIVE fold_length(_)
fold_length(s) ==
  IF s = <<>> THEN 0
  ELSE max(fold_length(SubSeq(s, 1, Len(s) - 1)), max(s[Len(s)].x, s[Len(s)].y))

empty_table_short(length) == [i \in 1..length |-> <<>>]

\* vec![vec![]; length + 1]
empty_table(length) == [i \in 1..(length + 1) |-> <<>>]

\* for entry in sorted_entries { indices[entry.x].push(entry.y);
\*                               values[entry.x].push(entry.v); }
\* t.oob records the panic of an index out of bounds, which ends the loop.
RECURSIVE push_entries(_, _)
push_entries(t, s) ==
  IF s = <<>> \/ t.oob THEN t
  ELSE LET e == Head(s) IN
       IF e.x >= Len(t.indices) \/ e.x >= Len(t.values)
         THEN [t EXCEPT !.oob = TRUE]
         ELSE push_entries(
                [oob |-> FALSE,
                 indices |-> [t.indices EXCEPT ![e.x + 1] = Append(@, e.y)],
                 values |-> [t.values EXCEPT ![e.x + 1] = Append(@, e.v)]],
                Tail(s))

SparseSymmetricMatrix_new(entries) ==
  LET lower == canonical_entries(entries)
      sorted_entries == dedup_by(sort_by(lower \o symmetric_entries(lower)))
      length == fold_length(sorted_entries)
      t == push_entries([oob |-> FALSE,
                         indices |-> empty_table(length),
                         values |-> empty_table(length)],
                        sorted_entries)
  IN  [oob |-> t.oob,
       matrix |-> [length |-> length, indices |-> t.indices, values |-> t.values]]

(***************************************************************************)
(* SparseRowMatrix::new                                                    *)
(***************************************************************************)
row_pointer_before(values, pushed) == Len(values) - pushed

\* row_pointers.push(values.len()), after the row's `pushed` elements went in.
row_pointer_after(values, pushed) == Len(values)

\* for j in 0..row.len() { values.push(matrix.values[i][j]);
\*                         column_index.push(row[j]); }
RECURSIVE push_row(_, _, _, _)
push_row(acc, matrix, i, j) ==
  LET row == matrix.indices[i + 1] IN
  IF acc.oob \/ j >= Len(row) THEN acc
  ELSE IF i >= Len(matrix.values) THEN [acc EXCEPT !.oob = TRUE]
  ELSE IF j >= Len(matrix.values[i + 1]) THEN [acc EXCEPT !.oob = TRUE]
  ELSE push_row([acc EXCEPT !.values = Append(@, matrix.values[i + 1][j + 1]),
                            !.column_index = Append(@, row[j + 1])],
                matrix, i, j + 1)

\* for i in 0..matrix.length + 1 { ...; row_pointers.push(values.len()); }
RECURSIVE push_rows(_, _, _)
push_rows(acc, matrix, i) ==
  IF acc.oob \/ i >= matrix.length + 1 THEN acc
  ELSE IF i >= Len(matrix.indices) THEN [acc EXCEPT !.oob = TRUE]
  ELSE LET a == push_row(acc, matrix, i, 0) IN
       IF a.oob THEN a
       ELSE push_rows(
              [a EXCEPT !.row_pointers =
                 Append(@, row_pointer_after(a.values, Len(matrix.indices[i + 1])))],
              matrix, i + 1)

SparseRowMatrix_new(matrix) ==
  LET a == push_rows([oob |-> FALSE, values |-> <<>>, column_index |-> <<>>,
                      row_pointers |-> <<0>>], matrix, 0)
  IN  [oob |-> a.oob,
       view |-> [values |-> a.values, column_index |-> a.column_index,
                 row_pointers |-> a.row_pointers]]

(***************************************************************************)
(* SparseRowMatrix::len, is_valid and apply                                *)
(***************************************************************************)
SparseRowMatrix_len(srm) == Len(srm.row_pointers) - 1

is_valid_unchecked(srm) == TRUE

SparseRowMatrix_is_valid(srm) ==
  {k \in 1..Len(srm.values) : ~is_finite(srm.values[k])} = {}

\* let x = self.row_pointers[i];
row_begin(srm, i) == srm.row_pointers[i + 1]

row_end_inclusive(srm, i) == srm.row_pointers[i + 2] - 1

\* let y = self.row_pointers[i + 1];
row_end(srm, i) == srm.row_pointers[i + 2]

\* for j in x..y { let index = self.column_index[j];
\*                 result[i] += self.values[j] * rhs.0[index]; }
\* acc.order is the sequence of the columns read so far.
RECURSIVE row_sum(_, _, _, _, _)
row_sum(acc, srm, rhs, j, y) ==
  IF acc.oob \/ j >= y THEN acc
  ELSE IF j >= Len(srm.column_index) \/ j >= Len(srm.values)
    THEN [acc EXCEPT !.oob = TRUE]
  ELSE LET index == srm.column_index[j + 1] IN
       IF index >= Len(rhs) THEN [acc EXCEPT !.oob = TRUE]
       ELSE row_sum([oob |-> FALSE,
                     sum |-> FAdd(acc.sum, FMul(srm.values[j + 1], rhs[index + 1])),
                     order |-> Append(acc.order, index)],
                    srm, rhs, j + 1, y)

\* for i in 0..n { ... }, on result = vec![0.0; n]
RECURSIVE apply_rows(_, _, _, _)
apply_rows(acc, srm, rhs, i) ==
  IF acc.oob \/ i >= SparseRowMatrix_len(srm) THEN acc
  ELSE LET r == row_sum([oob |-> FALSE, sum |-> F(0), order |-> <<>>],
                        srm, rhs, row_begin(srm, i), row_end(srm, i))
       IN  IF r.oob THEN [acc EXCEPT !.oob = TRUE]
           ELSE apply_rows([oob |-> FALSE,
                            v |-> Append(acc.v, r.sum),
                            order |-> Append(acc.order, r.order)],
                           srm, rhs, i + 1)

\* status "ok": the Vector returned in v, with order[i+1] the columns row i read
\* in the order it read them.  status "panic": the assertion (or index) that
\* ended the call; v then holds the row sums computed before it.
SparseRowMatrix_apply(srm, rhs) ==
  IF SparseRowMatrix_len(srm) # Len(rhs)
    THEN [status |-> "panic", reason |-> "dimension mismatch", v |-> <<>>, order |-> <<>>]
  ELSE IF ~SparseRowMatrix_is_valid(srm)
    THEN [status |-> "panic", reason |-> "invalid matrix", v |-> <<>>, order |-> <<>>]
  ELSE LET a == apply_rows([oob |-> FALSE, v |-> <<>>, order |-> <<>>], srm, rhs, 0)
       IN  IF a.oob
             THEN [status |-> "panic", reason |-> "index out of bounds",
                   v |-> a.v, order |-> a.order]
             ELSE [status |-> "ok", reason |-> "none", v |-> a.v, order |-> a.order]

(***************************************************************************)
(* The pipeline as a state machine                                         *)
(***************************************************************************)
VARIABLES
  pc,       \* "input", "built", "rebuilt", "view", "applied", "panicked"
  entries,  \* the entry list the caller holds
  m,        \* the SparseSymmetricMatrix built from entries
  m0,       \* the matrix built from the list before the caller reordered it
  srm,      \* the SparseRowMatrix built from m
  rhs,      \* the Vector given to apply
  result,   \* what apply returned
  panic     \* the panic that ended the run, "none" while it runs

vars == <<pc, entries, m, m0, srm, rhs, result, panic>>

NoMatrix == [length |-> 0, indices |-> <<>>, values |-> <<>>]
NoView == [values |-> <<>>, column_index |-> <<>>, row_pointers |-> <<>>]
NoResult == [status |-> "none", reason |-> "none", v |-> <<>>, order |-> <<>>]

\* The Vectors a caller passes to apply: every length up to one past the
\* largest dimension.
Vectors == UNION {[1..k -> VectorVals] : k \in 0..(MaxIdx + 2)}

Init ==
  /\ pc = "input"
  /\ entries = <<>>
  /\ m = NoMatrix
  /\ m0 = NoMatrix
  /\ srm = NoView
  /\ rhs = <<>>
  /\ result = NoResult
  /\ panic = "none"

\* The caller writes one more Entry into the list.
AddEntry(e) ==
  /\ pc = "input"
  /\ Len(entries) < MaxLen
  /\ entries' = Append(entries, e)
  /\ UNCHANGED <<pc, m, m0, srm, rhs, result, panic>>

\* let m = SparseSymmetricMatrix::new(&entries)
Construct ==
  /\ pc = "input"
  /\ LET r == SparseSymmetricMatrix_new(entries) IN
       IF r.oob
         THEN /\ pc' = "panicked"
              /\ panic' = "index out of bounds"
              /\ UNCHANGED m
         ELSE /\ pc' = "built"
              /\ m' = r.matrix
              /\ UNCHANGED panic
  /\ UNCHANGED <<entries, m0, srm, rhs, result>>

swap(s, i) == [k \in 1..Len(s) |-> IF k = i THEN s[i + 1]
                                   ELSE IF k = i + 1 THEN s[i] ELSE s[k]]

\* The caller feeds the same entries in another order: entries i and i+1 change
\* places and the matrix is constructed again.  m0 keeps the first matrix.
Reorder(i) ==
  /\ pc \in {"built", "rebuilt"}
  /\ i \in 1..(Len(entries) - 1)
  /\ entries' = swap(entries, i)
  /\ m0' = IF pc = "built" THEN m ELSE m0
  /\ LET r == SparseSymmetricMatrix_new(entries') IN
       IF r.oob
         THEN /\ pc' = "panicked"
              /\ panic' = "index out of bounds"
              /\ UNCHANGED m
         ELSE /\ pc' = "rebuilt"
              /\ m' = r.matrix
              /\ UNCHANGED panic
  /\ UNCHANGED <<srm, rhs, result>>

\* let srm = SparseRowMatrix::new(&m); the entry list, a temporary of the
\* construction, is gone by now.
BuildView ==
  /\ pc \in {"built", "rebuilt"}
  /\ LET r == SparseRowMatrix_new(m) IN
       IF r.oob
         THEN /\ pc' = "panicked"
              /\ panic' = "index out of bounds"
              /\ UNCHANGED srm
         ELSE /\ pc' = "view"
              /\ srm' = r.view
              /\ UNCHANGED panic
  /\ entries' = <<>>
  /\ m0' = NoMatrix
  /\ UNCHANGED <<m, rhs, result>>

\* let result = srm.apply(&v)
Apply(x) ==
  /\ pc = "view"
  /\ rhs' = x
  /\ result' = SparseRowMatrix_apply(srm, x)
  /\ IF result'.status = "ok"
       THEN pc' = "applied" /\ UNCHANGED panic
       ELSE pc' = "panicked" /\ panic' = result'.reason
  /\ UNCHANGED <<entries, m, m0, srm>>

Next ==
  \/ \E e \in Entry : AddEntry(e)
  \/ Construct
  \/ \E i \in 1..MaxLen : Reorder(i)
  \/ BuildView
  \/ \E x \in Vectors : Apply(x)

Spec == Init /\ [][Next]_vars

(***************************************************************************)
(* Reading a matrix                                                        *)
(***************************************************************************)
Built == pc \in {"built", "rebuilt"}

\* The positions of row i (0-based) that hold column j.
Positions(mat, i, j) ==
  IF i >= Len(mat.indices) \/ i >= Len(mat.values) THEN {}
  ELSE {k \in 1..min(Len(mat.indices[i + 1]), Len(mat.values[i + 1])) :
          mat.indices[i + 1][k] = j}

\* The values row i stores for column j.
ValuesAt(mat, i, j) == {mat.values[i + 1][k] : k \in Positions(mat, i, j)}

\* Row i stores column j exactly once, with value v.
StoresOnce(mat, i, j, v) ==
  Cardinality(Positions(mat, i, j)) = 1 /\ ValuesAt(mat, i, j) = {v}

\* (row, col) and (col, row) denote the same coefficient.
SameCoord(a, b) == {a.x, a.y} = {b.x, b.y}

NoDupCoord(s) ==
  \A k, l \in 1..Len(s) : k # l => ~SameCoord(s[k], s[l])

\* The index of the first entry of s at the coordinate of e.
FirstAt(s, e) ==
  CHOOSE k \in 1..Len(s) :
    SameCoord(s[k], e) /\ \A l \in 1..(k - 1) : ~SameCoord(s[l], e)

MaxCoord(s) ==
  CHOOSE c \in {s[k].x : k \in 1..Len(s)} \cup {s[k].y : k \in 1..Len(s)} :
    \A k \in 1..Len(s) : s[k].x <= c /\ s[k].y <= c

\* The matrix new returns for the empty list: one row, nothing stored.
Degenerate1x1 == [length |-> 0, indices |-> << <<>> >>, values |-> << <<>> >>]

(***************************************************************************)
(* Claims                                                                  *)
(***************************************************************************)

\* C1: the constructed matrix is symmetric: whenever row i stores column j
\* with value v and i # j, row j stores column i with the same value v.
C1_Symmetric ==
  Built =>
    \A i \in 0..(Len(m.indices) - 1) :
      \A k \in 1..min(Len(m.indices[i + 1]), Len(m.values[i + 1])) :
        LET j == m.indices[i + 1][k]
            v == m.values[i + 1][k]
        IN  i # j => (Positions(m, j, i) # {} /\ ValuesAt(m, j, i) = {v})

\* C1 witness: the list gives one coefficient in both orientations with
\* conflicting values, and the matrix stores it off the diagonal.
C1_Witness ==
  /\ Built
  /\ \E k, l \in 1..Len(entries) :
       /\ k < l
       /\ entries[k].x > entries[k].y
       /\ entries[l].x = entries[k].y /\ entries[l].y = entries[k].x
       /\ entries[k].v # entries[l].v
       /\ Positions(m, entries[k].x, entries[k].y) # {}

\* C2: when a coordinate appears more than once (in either orientation), the
\* value stored there and at its mirror is that of the first such entry in
\* input order, stored once; the later entries do not show.
C2_FirstEntryWins ==
  Built =>
    \A k \in 1..Len(entries) :
      LET e == entries[k]
          first == entries[FirstAt(entries, e)]
      IN  /\ StoresOnce(m, e.x, e.y, first.v)
          /\ StoresOnce(m, e.y, e.x, first.v)

\* C2 witness: a later entry repeats the coordinate of an earlier one with
\* another value, and the matrix holds the earlier value.
C2_Witness ==
  /\ Built
  /\ \E k, l \in 1..Len(entries) :
       /\ k < l
       /\ SameCoord(entries[k], entries[l])
       /\ entries[k].v # entries[l].v
       /\ ValuesAt(m, entries[l].x, entries[l].y) = {entries[k].v}

\* C3: construction on the empty list yields a matrix of dimension 0 (or is
\* rejected); it never returns the one-row matrix with nothing stored.
C3_EmptyInputNotDegenerate ==
  (Built /\ entries = <<>>) =>
     /\ Len(m.indices) = 0
     /\ Len(m.values) = 0
     /\ m # Degenerate1x1

\* C4: for a non-empty list the matrix is square with dimension
\* n = 1 + max over the entries of max(row, col): n rows in indices and in
\* values, length = n - 1, every stored column in 0..n-1.
C4_Dimension ==
  (Built /\ entries # <<>>) =>
     LET n == 1 + MaxCoord(entries) IN
       /\ Len(m.indices) = n
       /\ Len(m.values) = n
       /\ m.length = n - 1
       /\ \A i \in 1..Len(m.indices) :
            \A k \in 1..Len(m.indices[i]) : m.indices[i][k] \in 0..(n - 1)

\* C4 witness: the largest index comes as the row of an entry given below the
\* diagonal, and a row of the matrix stays empty.
C4_Witness ==
  /\ Built
  /\ \E k \in 1..Len(entries) :
       /\ entries[k].x = MaxIdx /\ entries[k].y < MaxIdx
       /\ Len(m.indices) = MaxIdx + 1
  /\ \E i \in 1..Len(m.indices) : m.indices[i] = <<>>

\* C5: every row has its column indices strictly increasing, and as many
\* values as indices.
C5_RowsStrictlyIncreasing ==
  Built =>
    /\ Len(m.values) = Len(m.indices)
    /\ \A i \in 1..Len(m.indices) :
         /\ Len(m.values[i]) = Len(m.indices[i])
         /\ \A k, l \in 1..Len(m.indices[i]) :
              k < l => m.indices[i][k] < m.indices[i][l]

\* C5 witness: two entries of one row given in decreasing column order, both
\* stored in that row.
C5_Witness ==
  /\ Built
  /\ \E k, l \in 1..Len(entries) :
       /\ k < l
       /\ entries[k].x = entries[l].x
       /\ entries[k].x <= entries[l].y
       /\ entries[k].y > entries[l].y
       /\ Len(m.indices[entries[k].x + 1]) >= 2

\* C6: with no two entries at the same coordinate, the matrix built from a
\* reordered list is identical to the one built from the list as first given.
C6_OrderIndependent ==
  (pc = "rebuilt" /\ NoDupCoord(entries)) => m = m0

\* C6 witness: a list of distinct coordinates, reordered and rebuilt, whose
\* entries now stand against the sorted order.
C6_Witness ==
  /\ pc = "rebuilt"
  /\ NoDupCoord(entries)
  /\ Len(entries) >= 2
  /\ sort_less(lower_triangle(entries[2]), lower_triangle(entries[1]))
  /\ m0 # NoMatrix

\* Row i of the view: the slice row_pointers[i]..row_pointers[i+1] of flat.
RowSlice(view, flat, i) ==
  SubSeq(flat, view.row_pointers[i + 1] + 1, view.row_pointers[i + 2])

\* C7: the view of a matrix of dimension n has n+1 row offsets that start at
\* 0, never decrease and end at values.len() = column_index.len(), and row
\* i's slices of column_index and values equal indices[i] and values[i].
C7_ViewLayout ==
  srm # NoView =>
    LET n == Len(m.indices)
        rp == srm.row_pointers
    IN  /\ Len(rp) = n + 1
        /\ rp[1] = 0
        /\ \A i \in 1..n : rp[i] <= rp[i + 1]
        /\ rp[n + 1] = Len(srm.values)
        /\ Len(srm.values) = Len(srm.column_index)
        /\ \A i \in 0..(n - 1) :
             /\ RowSlice(srm, srm.column_index, i) = m.indices[i + 1]
             /\ RowSlice(srm, srm.values, i) = m.values[i + 1]

\* C7 witness: a view with an empty row and a row of two or more entries.
C7_Witness ==
  /\ pc = "view"
  /\ \E i, j \in 1..(Len(srm.row_pointers) - 1) :
       /\ srm.row_pointers[i] = srm.row_pointers[i + 1]
       /\ srm.row_pointers[j + 1] >= srm.row_pointers[j] + 2

\* The dense symmetric matrix: the stored value at a stored coordinate, 0
\* elsewhere.
DenseAt(mat, i, j) ==
  IF Positions(mat, i, j) = {} THEN F(0)
  ELSE CHOOSE v \in ValuesAt(mat, i, j) : TRUE

\* The reference product of row i with x: sum over j = 0..upto-1 of A[i][j] * x[j].
RECURSIVE DenseRowProduct(_, _, _, _)
DenseRowProduct(mat, x, i, upto) ==
  IF upto = 0 THEN F(0)
  ELSE FAdd(DenseRowProduct(mat, x, i, upto - 1),
            FMul(DenseAt(mat, i, upto - 1), x[upto]))

\* C8: apply returns a vector of length n whose component i is the dense
\* product sum over j of A[i][j] * x[j]; each row reads its columns in stored,
\* increasing order.
C8_ApplyMatchesDense ==
  pc = "applied" =>
    LET n == Len(m.indices) IN
      /\ Len(rhs) = n
      /\ Len(result.v) = n
      /\ Len(result.order) = n
      /\ \A i \in 0..(n - 1) :
           /\ result.v[i + 1] = DenseRowProduct(m, rhs, i, n)
           /\ result.order[i + 1] = m.indices[i + 1]
           /\ \A k, l \in 1..Len(result.order[i + 1]) :
                k < l => result.order[i + 1][k] < result.order[i + 1][l]

\* C8 witness: a product in which some row adds two stored terms of different
\* coefficients against different components of x.
C8_Witness ==
  /\ pc = "applied"
  /\ \E i \in 1..Len(m.indices) :
       /\ Len(m.indices[i]) >= 2
       /\ m.values[i][1] # m.values[i][2]
       /\ rhs[m.indices[i][1] + 1] # rhs[m.indices[i][2] + 1]
  /\ \E i \in 1..Len(m.indices) : m.indices[i] = <<>>

AllFinite(s) == \A k \in 1..Len(s) : is_finite(s[k])

\* C9: apply returns a vector only when x.len() is the view's dimension and
\* every stored coefficient is finite; otherwise it aborts with an error
\* before any row sum is computed; a returned vector has the dimension's
\* length and finite components.
C9_ApplyPreconditions ==
  result # NoResult =>
    LET n == Len(srm.row_pointers) - 1
        fits == Len(rhs) = n
        finite == AllFinite(srm.values)
    IN  /\ result.status = "ok" <=> (fits /\ finite)
        /\ ~fits => /\ result.status = "panic"
                    /\ result.reason = "dimension mismatch"
                    /\ result.v = <<>>
        /\ (fits /\ ~finite) => /\ result.status = "panic"
                                /\ result.reason = "invalid matrix"
                                /\ result.v = <<>>
        /\ result.status = "ok" => (Len(result.v) = n /\ AllFinite(result.v))
        /\ result.status # "ok" => (pc = "panicked" /\ panic = result.reason)

\* C9 witness: apply on a view that stores a NaN, with a vector of the right
\* length, ended by the validity assertion.
C9_Witness ==
  /\ pc = "panicked"
  /\ panic = "invalid matrix"
  /\ Len(rhs) = Len(srm.row_pointers) - 1
  /\ \E k \in 1..Len(srm.values) : srm.values[k] = NaN

\* C10: no step of the pipeline reads or writes out of range: construction
\* writes rows 0..=length of tables of length+1 rows, the view builder reads
\* rows 0..=length, and every column index apply reads is below n.
C10_IndexSafety ==
  /\ panic # "index out of bounds"
  /\ m # NoMatrix =>
       /\ Len(m.indices) = m.length + 1
       /\ Len(m.values) = m.length + 1
       /\ \A i \in 1..Len(m.indices) :
            \A k \in 1..Len(m.indices[i]) : m.indices[i][k] <= m.length
  /\ srm # NoView =>
       \A k \in 1..Len(srm.column_index) :
         srm.column_index[k] < SparseRowMatrix_len(srm)
  /\ pc = "applied" =>
       \A i \in 1..Len(result.order) :
         \A k \in 1..Len(result.order[i]) : result.order[i][k] < Len(rhs)

\* C10 witness: a product that read the last component of x, in a pipeline
\* that started from a list naming the largest index.
C10_Witness ==
  /\ pc = "applied"
  /\ Len(rhs) = MaxIdx + 1
  /\ \E i \in 1..Len(result.order) :
       \E k \in 1..Len(result.order[i]) : result.order[i][k] = Len(rhs) - 1

====
